---- MODULE Spec2Model ----
(***************************************************************************)
(* Model of src/src/CreateVTUViewer.jsx: the VTU viewer factory            *)
(* createVTUViewer.  Two specifications share the variables:               *)
(*   SpecCells  the loop of extractCells, one iteration per step, over     *)
(*              bounded CellBlocks (typesArray, offsetsArray,              *)
(*              connectivityArray);                                        *)
(*   Spec       the viewer API: addVTUToScene (a file read followed by the *)
(*              synchronous assembly), enableThreshold, setRepresentation. *)
(***************************************************************************)
EXTENDS Integers, Sequences, FiniteSets, TLC

VARIABLES
    \* ---- extractCells (SpecCells) ----
    typesArray,         \* line 92
    offsetsArray,       \* line 91
    connectivityArray,  \* line 90
    cells,              \* line 101: the JS array being accumulated
    previousOffset,     \* line 102
    i,                  \* line 104: loop index (0-based)
    pcCells,            \* position in extractCells: "loop", "returned", "unused"
    result,             \* line 236: the Uint32Array returned
    \* ---- viewer (Spec) ----
    file,               \* the file handed to addVTUToScene and its options
    pc,                 \* addVTUToScene's promise: "idle", "reading", "resolved", "rejected"
    stage,              \* last statement group of addVTUToScene that completed
    polyData,           \* the polyData returned by addVTUToScene (line 314)
    mapperInput,        \* mapper.getInputData(): the mesh currently displayed
    lookupTable,        \* the mapper's colour transfer function and scalar range
    rendererActors,     \* number of actors added to the renderer (line 310)
    meshesCreated,      \* number of vtkPolyData instances created (lines 293, 344)
    representation,     \* actor.getProperty().getRepresentation()
    edgeVisibility,     \* actor.getProperty().getEdgeVisibility()
    lastCall            \* the last API call made and how it ended

cellVars == <<typesArray, offsetsArray, connectivityArray, cells, previousOffset,
              i, pcCells, result>>
viewerVars == <<file, pc, stage, polyData, mapperInput, lookupTable, rendererActors,
                meshesCreated, representation, edgeVisibility, lastCall>>
vars == <<cellVars, viewerVars>>

(***************************************************************************)
(* Bounds of the model.                                                    *)
(***************************************************************************)
MaxCells == 2       \* cells per CellBlock in SpecCells
MaxWindow == 8      \* points per cell window in SpecCells
MaxConn == 9        \* length of connectivityArray in SpecCells
MaxPoints == 2      \* points per file in Spec
MaxScalar == 2      \* scalar values of a file are drawn from 0..MaxScalar

(***************************************************************************)
(* Helpers for JavaScript arrays (0-based offsets over 1-based sequences). *)
(***************************************************************************)
Min2(a, b) == IF a < b THEN a ELSE b

\* The value JavaScript yields when an array is read past its end.
Undefined == -1

\* arr.slice(start, end)
Slice(arr, start, end) == SubSeq(arr, start + 1, Min2(end, Len(arr)))

\* arr[k]
At(arr, k) == IF k >= 0 /\ k < Len(arr) THEN arr[k + 1] ELSE Undefined

\* Element conversion done by new Uint32Array(array): undefined -> NaN -> 0,
\* integers modulo 2^32.  Every integer in the model lies in 0 .. 2^31 - 1,
\* where the reduction modulo 2^32 leaves the value as it is.
ToUint32(v) == IF v = Undefined THEN 0 ELSE v

Uint32Array(arr) == [k \in 1..Len(arr) |-> ToUint32(arr[k])]

(***************************************************************************)
(* extractCells: topology codes and face tables.                           *)
(***************************************************************************)
VTK_TRIANGLE == 5
VTK_QUAD == 9
VTK_TETRA == 10
VTK_HEXAHEDRON == 12
VTK_WEDGE == 13
VTK_PYRAMID == 14

faces == << <<0, 1, 2, 3>>, <<4, 5, 6, 7>>, <<0, 1, 5, 4>>,
            <<2, 3, 7, 6>>, <<0, 3, 7, 4>>, <<1, 2, 6, 5>> >>

wedgeFaces == << <<0, 1, 2>>, <<3, 4, 5>>, <<0, 1, 4, 3>>,
                 <<1, 2, 5, 4>>, <<0, 2, 5, 3>> >>

pyramidFaces == << <<0, 1, 2, 3>>, <<0, 1, 4>>, <<1, 2, 4>>,
                   <<2, 3, 4>>, <<3, 0, 4>> >>

\* cells.push(3, ci[f0], ci[f1], ci[f2], 3, ci[f0], ci[f2], ci[f3])
QuadFaceMutant(cellIndices, face) ==
    <<3, At(cellIndices, face[1]), At(cellIndices, face[2]), At(cellIndices, face[3]),
      3, At(cellIndices, face[2]), At(cellIndices, face[3]), At(cellIndices, face[4])>>

QuadFace(cellIndices, face) ==
    <<3, At(cellIndices, face[1]), At(cellIndices, face[2]), At(cellIndices, face[3]),
      3, At(cellIndices, face[1]), At(cellIndices, face[3]), At(cellIndices, face[4])>>

\* cells.push(3, ...face.map((idx) => cellIndices[idx]))
TriFace(cellIndices, face) ==
    <<3>> \o [k \in 1..Len(face) |-> At(cellIndices, face[k])]

\* the body of wedgeFaces.forEach / pyramidFaces.forEach
MixedFace(cellIndices, face) ==
    IF Len(face) = 3 THEN TriFace(cellIndices, face) ELSE QuadFace(cellIndices, face)

RECURSIVE QuadFacesFrom(_, _, _)
QuadFacesFrom(cellIndices, table, k) ==
    IF k > Len(table) THEN <<>>
    ELSE QuadFace(cellIndices, table[k]) \o QuadFacesFrom(cellIndices, table, k + 1)

RECURSIVE MixedFacesFrom(_, _, _)
MixedFacesFrom(cellIndices, table, k) ==
    IF k > Len(table) THEN <<>>
    ELSE MixedFace(cellIndices, table[k]) \o MixedFacesFrom(cellIndices, table, k + 1)

\* the default case: for (j = 0; j < numPoints - 2; j++) push(3, ci[0], ci[j+1], ci[j+2])
RECURSIVE FanFrom(_, _, _)
FanFrom(cellIndices, numPoints, j) ==
    IF j < numPoints - 2
    THEN <<3, At(cellIndices, 0), At(cellIndices, j + 1), At(cellIndices, j + 2)>>
         \o FanFrom(cellIndices, numPoints, j + 1)
    ELSE <<>>

DefaultCaseMutant(cellIndices, numPoints) ==
    IF numPoints >= 3 THEN FanFrom(cellIndices, numPoints - 1, 0) ELSE <<>>

DefaultCase(cellIndices, numPoints) ==
    IF numPoints >= 3 THEN FanFrom(cellIndices, numPoints, 0) ELSE <<>>

\* What one iteration of the loop appends to cells (the switch, lines 109-231).
CellPush(cellType, numPoints, cellIndices) ==
    CASE cellType = VTK_TRIANGLE -> <<3>> \o cellIndices
      [] cellType = VTK_QUAD -> QuadFace(cellIndices, <<0, 1, 2, 3>>)
      [] cellType = VTK_TETRA ->
            <<3, At(cellIndices, 0), At(cellIndices, 1), At(cellIndices, 2),
              3, At(cellIndices, 0), At(cellIndices, 2), At(cellIndices, 3),
              3, At(cellIndices, 0), At(cellIndices, 3), At(cellIndices, 1),
              3, At(cellIndices, 1), At(cellIndices, 3), At(cellIndices, 2)>>
      [] cellType = VTK_HEXAHEDRON -> QuadFacesFrom(cellIndices, faces, 1)
      [] cellType = VTK_WEDGE -> MixedFacesFrom(cellIndices, wedgeFaces, 1)
      [] cellType = VTK_PYRAMID -> MixedFacesFrom(cellIndices, pyramidFaces, 1)
      [] OTHER -> DefaultCase(cellIndices, numPoints)

\* The whole loop of extractCells from cell k (0-based) on, and its return value.
RECURSIVE ExtractCellsFrom(_, _, _, _, _)
ExtractCellsFrom(conn, offs, types, k, prev) ==
    IF k >= Len(types) THEN <<>>
    ELSE CellPush(types[k + 1], At(offs, k) - prev, Slice(conn, prev, At(offs, k)))
         \o ExtractCellsFrom(conn, offs, types, k + 1, At(offs, k))

ExtractCells(conn, offs, types) == Uint32Array(ExtractCellsFrom(conn, offs, types, 0, 0))

(***************************************************************************)
(* SpecCells: the CellBlocks the loop is run on.                           *)
(***************************************************************************)
\* A topology code none of the cases names (7 is VTK_POLYGON).
UnknownTag == 7

Tags == {VTK_TRIANGLE, VTK_QUAD, VTK_TETRA, VTK_HEXAHEDRON, VTK_WEDGE, VTK_PYRAMID,
         UnknownTag}

RECURSIVE SumSeq(_)
SumSeq(s) == IF s = <<>> THEN 0 ELSE s[1] + SumSeq(Tail(s))

\* offsets: the running sums of the window sizes
Offsets(sizes) == [k \in 1..Len(sizes) |-> SumSeq(SubSeq(sizes, 1, k))]

\* connectivity of length n over distinct point indices, ascending or descending
Connectivity(n, ascending) == [k \in 1..n |-> IF ascending THEN k - 1 ELSE n - k]

SizeSeqs == UNION {[1..n -> 1..MaxWindow] : n \in 1..MaxCells}

InitViewerUnused ==
    /\ file = [kind |-> "none"]
    /\ pc = "unused"
    /\ stage = "none"
    /\ polyData = [kind |-> "none"]
    /\ mapperInput = [kind |-> "none"]
    /\ lookupTable = <<>>
    /\ rendererActors = 0
    /\ meshesCreated = 0
    /\ representation = 2
    /\ edgeVisibility = FALSE
    /\ lastCall = [op |-> "none"]

InitCells ==
    /\ \E sizes \in SizeSeqs :
         /\ SumSeq(sizes) <= MaxConn
         /\ offsetsArray = Offsets(sizes)
         /\ typesArray \in [1..Len(sizes) -> Tags]
         /\ \E ascending \in BOOLEAN :
              connectivityArray = Connectivity(SumSeq(sizes), ascending)
    /\ cells = <<>>
    /\ previousOffset = 0
    /\ i = 0
    /\ pcCells = "loop"
    /\ result = <<>>
    /\ InitViewerUnused

\* One iteration of the for loop (lines 104-234).
ExtractCellsIteration ==
    /\ pcCells = "loop"
    /\ i < Len(typesArray)
    /\ LET cellType == typesArray[i + 1]
           numPoints == At(offsetsArray, i) - previousOffset
           cellIndices == Slice(connectivityArray, previousOffset, At(offsetsArray, i))
       IN  cells' = cells \o CellPush(cellType, numPoints, cellIndices)
    /\ previousOffset' = At(offsetsArray, i)
    /\ i' = i + 1
    /\ UNCHANGED <<typesArray, offsetsArray, connectivityArray, pcCells, result>>
    /\ UNCHANGED viewerVars

\* Loop exit and return new Uint32Array(cells) (line 236).
ExtractCellsReturn ==
    /\ pcCells = "loop"
    /\ i >= Len(typesArray)
    /\ result' = Uint32Array(cells)
    /\ pcCells' = "returned"
    /\ UNCHANGED <<typesArray, offsetsArray, connectivityArray, cells, previousOffset, i>>
    /\ UNCHANGED viewerVars

NextCells == ExtractCellsIteration \/ ExtractCellsReturn

SpecCells == InitCells /\ [][NextCells]_vars

(***************************************************************************)
(* Spec: the files handed to addVTUToScene.                                *)
(***************************************************************************)
ArrayNames == {"Points", "connectivity", "offsets", "types"}

\* The arrays of a point-scalar field: one value per point.
ScalarArrays(n) == [1..n -> 0..MaxScalar]

\* PointData of a file with k fields over the values a: "a" holds a, "b" its mirror.
PointData(k, a) ==
    SubSeq(<< [name |-> "a", values |-> a],
              [name |-> "b", values |-> [p \in 1..Len(a) |-> MaxScalar - a[p]]] >>, 1, k)

\* Files whose read fails, files that are no XML, and XML files with any subset
\* of the four arrays, zero to two scalar fields and an optional options.scalarField
\* ("" when the caller passes none).
Files ==
    {[readError |-> r, wellFormed |-> w, present |-> ArrayNames, nPoints |-> 1,
      pointData |-> <<>>, option |-> "", cellKind |-> "triangle"] :
        r \in BOOLEAN, w \in {FALSE}}
    \cup
    UNION {
      {[readError |-> FALSE, wellFormed |-> TRUE, present |-> pr, nPoints |-> n,
        pointData |-> PointData(k, a), option |-> o, cellKind |-> c] :
          pr \in SUBSET ArrayNames, a \in ScalarArrays(n), k \in 0..2,
          o \in {"", "a", "b", "zz"}, c \in {"triangle", "polygon"}}
      : n \in 1..MaxPoints}

\* The document DOMParser returns: for text that is no XML, a parsererror
\* document in which no query finds anything.
Has(f, name) == f.wellFormed /\ name \in f.present

DocPointData(f) == IF f.wellFormed THEN f.pointData ELSE <<>>

\* The text of the Points array, parsed: point p has the coordinates 10p, 10p+1, 10p+2.
extractPoints(f) == [k \in 1..(3 * f.nPoints) |-> 10 * ((k - 1) \div 3) + ((k - 1) % 3)]

\* The CellBlock of the file: one triangle cell, or one polygon over all points.
FileConnectivity(f) ==
    IF f.cellKind = "triangle" THEN [k \in 1..3 |-> (k - 1) % f.nPoints]
    ELSE [k \in 1..f.nPoints |-> k - 1]

FileOffsets(f) == IF f.cellKind = "triangle" THEN <<3>> ELSE <<f.nPoints>>

FileTypes(f) == IF f.cellKind = "triangle" THEN <<VTK_TRIANGLE>> ELSE <<UnknownTag>>

\* getAllScalarFields
getAllScalarFields(f) == [k \in 1..Len(DocPointData(f)) |-> DocPointData(f)[k].name]

\* options.scalarField || scalarFields[0]; "undefined" when there is neither
selectedScalar(f) ==
    IF f.option # "" THEN f.option
    ELSE IF Len(getAllScalarFields(f)) > 0 THEN getAllScalarFields(f)[1]
    ELSE "undefined"

\* extractScalars: the fields whose Name is scalarName (none: it returns null)
ScalarMatches(f, scalarName) ==
    {k \in 1..Len(DocPointData(f)) : DocPointData(f)[k].name = scalarName}

extractScalarsIsNull(f) == ScalarMatches(f, selectedScalar(f)) = {}

extractScalars(f) ==
    DocPointData(f)[CHOOSE k \in ScalarMatches(f, selectedScalar(f)) :
                        \A m \in ScalarMatches(f, selectedScalar(f)) : k <= m].values

\* extractPoints reads pointsTag.textContent: a TypeError when the tag is null
extractPointsThrows(f) == ~Has(f, "Points")

extractCellsThrowsMutant(f) == ~Has(f, "connectivity")

\* if (!connectivityTag || !offsetsTag || !typesTag) throw
extractCellsThrows(f) ==
    ~Has(f, "connectivity") \/ ~Has(f, "offsets") \/ ~Has(f, "types")

\* Math.min(...values), Math.max(...values)
SeqMin(s) == CHOOSE v \in {s[k] : k \in 1..Len(s)} : \A k \in 1..Len(s) : v <= s[k]
SeqMax(s) == CHOOSE v \in {s[k] : k \in 1..Len(s)} : \A k \in 1..Len(s) : v >= s[k]

\* The nine colours of applyColorMap, in 1/10000.
ColorRamp == << <<0, 0, 10000>>, <<0, 2157, 10000>>, <<0, 4275, 10000>>,
                <<392, 6431, 9961>>, <<2745, 8157, 9255>>, <<9961, 6431, 4745>>,
                <<10000, 4275, 2745>>, <<10000, 2157, 1333>>, <<10000, 0, 0>> >>

\* applyColorMap: control point k at min + (max - min) * k / 8, kept in eighths.
applyColorMap(min, max) ==
    [k \in 1..9 |-> [x8 |-> 8 * min + (max - min) * (k - 1), rgb |-> ColorRamp[k]]]

NoMesh == [exists |-> FALSE, points |-> <<>>, polys |-> <<>>,
           hasScalars |-> FALSE, scalars |-> <<>>]

NoCall == [op |-> "none", type |-> "", threshold |-> 0, threw |-> FALSE]

InitCellsUnused ==
    /\ typesArray = <<>>
    /\ offsetsArray = <<>>
    /\ connectivityArray = <<>>
    /\ cells = <<>>
    /\ previousOffset = 0
    /\ i = 0
    /\ pcCells = "unused"
    /\ result = <<>>

\* createVTUViewer has run; no file loaded yet.  A new actor's property has
\* representation 2 (surface) and edge visibility off.
Init ==
    /\ file \in Files
    /\ pc = "idle"
    /\ stage = "none"
    /\ polyData = NoMesh
    /\ mapperInput = NoMesh
    /\ lookupTable = <<>>
    /\ rendererActors = 0
    /\ meshesCreated = 0
    /\ representation = 2
    /\ edgeVisibility = FALSE
    /\ lastCall = NoCall
    /\ InitCellsUnused

(***************************************************************************)
(* addVTUToScene: the call starts the file read; the rest runs when the    *)
(* read ends.                                                              *)
(***************************************************************************)
AddVTUToSceneCall == [op |-> "addVTUToScene", type |-> "", threshold |-> 0, threw |-> FALSE]

\* addVTUToScene up to the await: parseVTUFile starts reader.readAsText(file).
AddVTUToScene ==
    /\ pc = "idle"
    /\ pc' = "reading"
    /\ lastCall' = AddVTUToSceneCall
    /\ UNCHANGED <<file, stage, polyData, mapperInput, lookupTable, rendererActors,
                   meshesCreated, representation, edgeVisibility>>
    /\ UNCHANGED cellVars

\* reader.onerror: the promise of parseVTUFile rejects, and addVTUToScene's with it.
FileReaderOnError ==
    /\ pc = "reading"
    /\ file.readError
    /\ pc' = "rejected"
    /\ UNCHANGED <<file, stage, polyData, mapperInput, lookupTable, rendererActors,
                   meshesCreated, representation, edgeVisibility, lastCall>>
    /\ UNCHANGED cellVars

\* reader.onload, then extractPoints throws (line 76).
OnLoadExtractPointsThrows ==
    /\ pc = "reading"
    /\ ~file.readError
    /\ extractPointsThrows(file)
    /\ stage' = "parsed"
    /\ pc' = "rejected"
    /\ UNCHANGED <<file, polyData, mapperInput, lookupTable, rendererActors,
                   meshesCreated, representation, edgeVisibility, lastCall>>
    /\ UNCHANGED cellVars

\* reader.onload, then extractCells throws (line 87).
OnLoadExtractCellsThrows ==
    /\ pc = "reading"
    /\ ~file.readError
    /\ ~extractPointsThrows(file)
    /\ extractCellsThrows(file)
    /\ stage' = "points"
    /\ pc' = "rejected"
    /\ UNCHANGED <<file, polyData, mapperInput, lookupTable, rendererActors,
                   meshesCreated, representation, edgeVisibility, lastCall>>
    /\ UNCHANGED cellVars

\* The polyData built by lines 291-299; scalars are null when extractScalars
\* found no array.
AssembledMesh(f) ==
    [exists |-> TRUE,
     points |-> extractPoints(f),
     polys |-> ExtractCells(IF Has(f, "connectivity") THEN FileConnectivity(f) ELSE <<>>,
                            IF Has(f, "offsets") THEN FileOffsets(f) ELSE <<>>,
                            IF Has(f, "types") THEN FileTypes(f) ELSE <<>>),
     hasScalars |-> ~extractScalarsIsNull(f),
     scalars |-> IF extractScalarsIsNull(f) THEN <<>> ELSE extractScalars(f)]

\* reader.onload, then scalars.getData() throws on null scalars (line 307): the
\* polyData, the mapper and the actor exist, the actor is not in the renderer.
OnLoadScalarRangeThrows ==
    /\ pc = "reading"
    /\ ~file.readError
    /\ ~extractPointsThrows(file)
    /\ ~extractCellsThrows(file)
    /\ extractScalarsIsNull(file)
    /\ mapperInput' = AssembledMesh(file)
    /\ meshesCreated' = meshesCreated + 1
    /\ stage' = "actor"
    /\ pc' = "rejected"
    /\ UNCHANGED <<file, polyData, lookupTable, rendererActors,
                   representation, edgeVisibility, lastCall>>
    /\ UNCHANGED cellVars

\* reader.onload and the whole of lines 287-314.
OnLoadCompletes ==
    /\ pc = "reading"
    /\ ~file.readError
    /\ ~extractPointsThrows(file)
    /\ ~extractCellsThrows(file)
    /\ ~extractScalarsIsNull(file)
    /\ mapperInput' = AssembledMesh(file)
    /\ polyData' = AssembledMesh(file)
    /\ meshesCreated' = meshesCreated + 1
    /\ lookupTable' = applyColorMap(SeqMin(extractScalars(file)), SeqMax(extractScalars(file)))
    /\ rendererActors' = rendererActors + 1
    /\ stage' = "added"
    /\ pc' = "resolved"
    /\ UNCHANGED <<file, representation, edgeVisibility, lastCall>>
    /\ UNCHANGED cellVars

(***************************************************************************)
(* setRepresentation                                                       *)
(***************************************************************************)
RepresentationTypes == {"points", "wireframe", "surface", "surface_with_edges", "other"}

SetRepresentationValue(type, current) ==
    CASE type = "points" -> 0
      [] type = "wireframe" -> 1
      [] type = "surface" -> 2
      [] type = "surface_with_edges" -> 2
      [] OTHER -> current

SetEdgeVisibilityValue(type, current) ==
    IF type = "surface_with_edges" THEN TRUE ELSE current

SetRepresentation ==
    /\ pc = "resolved"
    /\ \E type \in RepresentationTypes :
         /\ representation' = SetRepresentationValue(type, representation)
         /\ edgeVisibility' = SetEdgeVisibilityValue(type, edgeVisibility)
         /\ lastCall' = [op |-> "setRepresentation", type |-> type, threshold |-> 0,
                         threw |-> FALSE]
    /\ UNCHANGED <<file, pc, stage, polyData, mapperInput, lookupTable, rendererActors,
                   meshesCreated>>
    /\ UNCHANGED cellVars

(***************************************************************************)
(* enableThreshold                                                         *)
(***************************************************************************)
Thresholds == (0 - 1)..MaxScalar

MaskMutant(scalars, thresholdValue) ==
    [k \in 1..Len(scalars) |-> IF scalars[k] >= thresholdValue THEN 1 ELSE 0]

\* scalars.map((value) => value > thresholdValue): a Float32Array of 1 and 0
Mask(scalars, thresholdValue) ==
    [k \in 1..Len(scalars) |-> IF scalars[k] > thresholdValue THEN 1 ELSE 0]

\* JavaScript truthiness of a mask entry (undefined past the end of the mask)
Truthy(v) == v # Undefined /\ v # 0

\* data.filter((_, index) => mask[Math.floor(index / 3)]), from index k (0-based) on
RECURSIVE FilterFrom(_, _, _)
FilterFrom(data, mask, k) ==
    IF k >= Len(data) THEN <<>>
    ELSE (IF Truthy(At(mask, k \div 3)) THEN <<data[k + 1]>> ELSE <<>>)
         \o FilterFrom(data, mask, k + 1)

FilteredPolyDataMutant(mesh, thresholdValue) ==
    [exists |-> TRUE,
     points |-> FilterFrom(mesh.points, Mask(mesh.scalars, thresholdValue), 0),
     polys |-> mesh.polys,
     hasScalars |-> FALSE,
     scalars |-> <<>>]

\* filteredPolyData: a new vtkPolyData that is given the filtered points only
FilteredPolyData(mesh, thresholdValue) ==
    [exists |-> TRUE,
     points |-> FilterFrom(mesh.points, Mask(mesh.scalars, thresholdValue), 0),
     polys |-> <<>>,
     hasScalars |-> FALSE,
     scalars |-> <<>>]

EnableThreshold ==
    /\ pc = "resolved"
    /\ mapperInput.hasScalars
    /\ \E thresholdValue \in Thresholds :
         /\ mapperInput' = FilteredPolyData(mapperInput, thresholdValue)
         /\ lastCall' = [op |-> "enableThreshold", type |-> "",
                         threshold |-> thresholdValue, threw |-> FALSE]
    /\ meshesCreated' = meshesCreated + 1
    /\ UNCHANGED <<file, pc, stage, polyData, lookupTable, rendererActors,
                   representation, edgeVisibility>>
    /\ UNCHANGED cellVars

\* polyData.getPointData().getScalars() is null: .getData() throws a TypeError
\* before anything is changed.
EnableThresholdThrows ==
    /\ pc = "resolved"
    /\ ~mapperInput.hasScalars
    /\ \E thresholdValue \in Thresholds :
         lastCall' = [op |-> "enableThreshold", type |-> "",
                      threshold |-> thresholdValue, threw |-> TRUE]
    /\ UNCHANGED <<file, pc, stage, polyData, mapperInput, lookupTable, rendererActors,
                   meshesCreated, representation, edgeVisibility>>
    /\ UNCHANGED cellVars

Next ==
    \/ AddVTUToScene
    \/ FileReaderOnError
    \/ OnLoadExtractPointsThrows
    \/ OnLoadExtractCellsThrows
    \/ OnLoadScalarRangeThrows
    \/ OnLoadCompletes
    \/ SetRepresentation
    \/ EnableThreshold
    \/ EnableThresholdThrows

Spec == Init /\ [][Next]_vars

(***************************************************************************)
(* Properties of extractCells, checked under SpecCells.                    *)
(***************************************************************************)
\* The step is one iteration of the loop, on cell i.
IterationStep == pcCells = "loop" /\ i' = i + 1

\* The window of cell i: connectivity[offsets[i-1] .. offsets[i]), offsets[-1] = 0.
Window == SubSeq(connectivityArray, previousOffset + 1, offsetsArray[i + 1])

SupportedTags == {5, 9, 10, 12, 13, 14}

NominalCount(tag) ==
    CASE tag = 5 -> 3 [] tag = 9 -> 4 [] tag = 10 -> 4
      [] tag = 12 -> 8 [] tag = 13 -> 6 [] tag = 14 -> 5

\* A quadrilateral face (a, b, c, d) is split as (a, b, c), (a, c, d).
SplitFace(f) ==
    IF Len(f) = 3 THEN <<f>> ELSE << <<f[1], f[2], f[3]>>, <<f[1], f[3], f[4]>> >>

RECURSIVE SplitFaces(_)
SplitFaces(table) ==
    IF table = <<>> THEN <<>> ELSE SplitFace(Head(table)) \o SplitFaces(Tail(table))

\* The fixed decomposition of each supported topology, as local index triples.
Decomposition(tag) ==
    CASE tag = 5 -> << <<0, 1, 2>> >>
      [] tag = 9 -> << <<0, 1, 2>>, <<0, 2, 3>> >>
      [] tag = 10 -> << <<0, 1, 2>>, <<0, 2, 3>>, <<0, 3, 1>>, <<1, 3, 2>> >>
      [] tag = 12 -> SplitFaces(faces)
      [] tag = 13 -> SplitFaces(wedgeFaces)
      [] tag = 14 -> SplitFaces(pyramidFaces)

TriangleCount(tag) ==
    CASE tag = 5 -> 1 [] tag = 9 -> 2 [] tag = 10 -> 4
      [] tag = 12 -> 12 [] tag = 13 -> 8 [] tag = 14 -> 6

\* The records (3, w[a], w[b], w[c]) of a list of local index triples.
RECURSIVE Records(_, _)
Records(w, triples) ==
    IF triples = <<>> THEN <<>>
    ELSE <<3, w[Head(triples)[1] + 1], w[Head(triples)[2] + 1], w[Head(triples)[3] + 1]>>
         \o Records(w, Tail(triples))

\* The fan (0, j+1, j+2), j = 0 .. n-3, as local index triples.
Fan(n) == [j \in 1..(n - 2) |-> <<0, j, j + 1>>]

\* C1: an iteration on a cell with a supported tag and the nominal number of
\* points appends exactly the triangles of the fixed decomposition, in order,
\* remapped through the cell's window (1, 2, 4, 12, 8 and 6 triangles).
C1_FixedDecomposition ==
    [][(IterationStep /\ typesArray[i + 1] \in SupportedTags
          /\ Len(Window) = NominalCount(typesArray[i + 1]))
       => (/\ cells' = cells \o Records(Window, Decomposition(typesArray[i + 1]))
           /\ Len(cells') = Len(cells) + 4 * TriangleCount(typesArray[i + 1]))]_vars

\* A hexahedron with 8 points, second in its CellBlock, has been tessellated.
C1_Witness ==
    /\ pcCells = "loop" /\ i = 2
    /\ typesArray[2] = VTK_HEXAHEDRON
    /\ offsetsArray[2] - offsetsArray[1] = 8
    /\ Len(cells) >= 48

\* C2: an iteration on a cell with an unsupported tag and n >= 3 points appends
\* exactly the n-2 triangles of the fan (w[0], w[j+1], w[j+2]), j = 0 .. n-3.
C2_FanFallback ==
    [][(IterationStep /\ typesArray[i + 1] \notin SupportedTags /\ Len(Window) >= 3)
       => (/\ cells' = cells \o Records(Window, Fan(Len(Window)))
           /\ Len(cells') = Len(cells) + 4 * (Len(Window) - 2))]_vars

\* A cell with an unknown tag and 5 points, second in its CellBlock, has been
\* tessellated into 3 triangles.
C2_Witness ==
    /\ pcCells = "loop" /\ i = 2
    /\ typesArray[2] = UnknownTag
    /\ offsetsArray[2] - offsetsArray[1] = 5
    /\ SubSeq(cells, Len(cells) - 11, Len(cells))
         = Records(SubSeq(connectivityArray, offsetsArray[1] + 1, offsetsArray[2]),
                   << <<0, 1, 2>>, <<0, 2, 3>>, <<0, 3, 4>> >>)

\* The number of points of the mesh: SpecCells runs extractCells on CellBlocks
\* whose connectivity is a permutation of 0 .. N-1, so that every connectivity
\* entry lies in [0, N) and N is the least point count with that property.
PointCount == Len(connectivityArray)

\* C5: every point index of the returned triangle buffer (every entry that is
\* not at the marker position of its 4-entry record) lies in [0, N).
C5_IndicesInRange ==
    (pcCells = "returned"
       /\ \A k \in 1..Len(connectivityArray) :
            connectivityArray[k] >= 0 /\ connectivityArray[k] < PointCount)
    => \A k \in 1..Len(result) :
         (k - 1) % 4 # 0 => (result[k] >= 0 /\ result[k] < PointCount)

\* C7: the returned buffer is a concatenation of 4-entry records: its length is
\* a multiple of 4 and every entry at a position divisible by 4 is the marker 3.
C7_FixedSizeRecords ==
    pcCells = "returned"
    => /\ Len(result) % 4 = 0
       /\ \A k \in 1..Len(result) : (k - 1) % 4 = 0 => result[k] = 3

\* C8: an iteration on a cell with fewer than 3 points appends nothing,
\* whatever the cell's tag.
C8_SmallCellSkipped ==
    [][(IterationStep /\ Len(Window) < 3) => cells' = cells]_vars

(***************************************************************************)
(* Properties of the viewer API, checked under Spec.                       *)
(***************************************************************************)
\* The step is a call of enableThreshold that returns.
ThresholdStep ==
    /\ mapperInput.hasScalars
    /\ lastCall'.op = "enableThreshold"
    /\ ~lastCall'.threw

\* The coordinate triples of the points p, p+1, ... whose scalar exceeds t.
RECURSIVE Kept(_, _, _, _)
Kept(points, scalars, t, p) ==
    IF 3 * p > Len(points) THEN <<>>
    ELSE (IF scalars[p] > t THEN SubSeq(points, 3 * p - 2, 3 * p) ELSE <<>>)
         \o Kept(points, scalars, t, p + 1)

\* C3: enableThreshold(actor, t) keeps the coordinates of point i iff its scalar
\* is > t, in the original order; t below every scalar keeps all points, t at or
\* above every scalar keeps none.
C3_ThresholdKeepsGreater ==
    [][ThresholdStep
       => LET t == lastCall'.threshold
              s == mapperInput.scalars
          IN  /\ mapperInput'.points = Kept(mapperInput.points, s, t, 1)
              /\ (\A k \in 1..Len(s) : t < s[k])
                    => mapperInput'.points = mapperInput.points
              /\ (\A k \in 1..Len(s) : t >= s[k])
                    => mapperInput'.points = <<>>]_vars

\* enableThreshold has removed some points of the loaded mesh and kept others.
C3_Witness ==
    /\ lastCall.op = "enableThreshold" /\ ~lastCall.threw
    /\ Len(mapperInput.points) > 0
    /\ Len(mapperInput.points) < Len(polyData.points)

\* The load of the file fails at some step: the read, the parse, the points
\* array, one of the three cell arrays, or the scalar field to display.
CellArrayAbsent(f) ==
    f.wellFormed /\ {"connectivity", "offsets", "types"} \ f.present # {}

NoUsableScalar(f) ==
    IF f.option = "" THEN f.pointData = <<>>
    ELSE \A k \in 1..Len(f.pointData) : f.pointData[k].name # f.option

LoadFails(f) ==
    \/ f.readError
    \/ ~f.wellFormed
    \/ "Points" \notin f.present
    \/ CellArrayAbsent(f)
    \/ NoUsableScalar(f)

\* C4: a load that fails at any step ends with the promise rejected and no actor
\* in the renderer; with a cell array absent, no triangle has been produced and
\* no mesh object created.
C4_FailedLoadLeavesNothing ==
    /\ (pc \in {"resolved", "rejected"} /\ LoadFails(file)) => pc = "rejected"
    /\ pc = "rejected" => rendererActors = 0
    /\ (pc = "rejected" /\ ~file.readError /\ CellArrayAbsent(file))
          => (/\ meshesCreated = 0
              /\ mapperInput = NoMesh
              /\ polyData = NoMesh
              /\ stage \in {"parsed", "points"})

\* A file with its points but without its types array has been rejected by
\* extractCells.
C4_Witness ==
    /\ pc = "rejected" /\ stage = "points"
    /\ "Points" \in file.present /\ "types" \notin file.present

\* C6: after a successful load and any number of enableThreshold calls, the mesh
\* of the mapper has an active scalar field with one value per point, and
\* enableThreshold can be applied to it.
C6_ActiveScalarPerPoint ==
    pc = "resolved"
    => /\ mapperInput.hasScalars
       /\ 3 * Len(mapperInput.scalars) = Len(mapperInput.points)
       /\ lastCall.op = "enableThreshold" => ~lastCall.threw

\* C9 as stated: the mesh produced by enableThreshold has the triangle index
\* buffer of the input mesh.
C9_TrianglesKept ==
    [][ThresholdStep => mapperInput'.polys = mapperInput.polys]_vars

\* C9 as amended: the mesh produced by enableThreshold carries the filtered
\* point buffer only: its triangle index buffer is empty and it has no scalar
\* array; the mesh addVTUToScene returned keeps its buffers.
C9_OnlyPointsCarried ==
    [][ThresholdStep
       => /\ mapperInput'.polys = <<>>
          /\ ~mapperInput'.hasScalars /\ mapperInput'.scalars = <<>>
          /\ mapperInput'.points
                = Kept(mapperInput.points, mapperInput.scalars, lastCall'.threshold, 1)
          /\ polyData' = polyData
          /\ polyData = mapperInput]_vars

\* enableThreshold has run on a mesh with triangles, and the mapper's mesh has
\* points but no triangle.
C9_Witness ==
    /\ lastCall.op = "enableThreshold" /\ ~lastCall.threw
    /\ polyData.polys # <<>>
    /\ mapperInput.polys = <<>>
    /\ mapperInput.points # <<>>

\* C10: after a setRepresentation call the display state is the one of the
\* call's type alone, and the call changes no mesh.
C10_LastCallDecides ==
    [][lastCall'.op = "setRepresentation"
       => /\ lastCall'.type = "points" => (representation' = 0 /\ ~edgeVisibility')
          /\ lastCall'.type = "wireframe" => (representation' = 1 /\ ~edgeVisibility')
          /\ lastCall'.type = "surface" => (representation' = 2 /\ ~edgeVisibility')
          /\ lastCall'.type = "surface_with_edges"
                => (representation' = 2 /\ edgeVisibility')
          /\ mapperInput' = mapperInput /\ polyData' = polyData]_vars

====
